---- MODULE Spec2Model ----
(***************************************************************************)
(* A model of main.py: the PRODIGY static score (calculate_prodigy_score), *)
(* the Overall Risk Score (calculate_ors) and the script that runs one     *)
(* after the other on a loaded patient record.                             *)
(*                                                                         *)
(* Python floats are modelled as decimal fixed-point numbers with sixteen  *)
(* fractional digits (binary64 carries 53 bits, about 1.1e-16 at 1.0).  A  *)
(* number is a tuple <<i, a, b, c, d>> of limbs in base 10^4 that stands   *)
(* for i + a/10^4 + b/10^8 + c/10^12 + d/10^16, where i is any integer     *)
(* and a..d are in 0..9999, so a negative number has a negative i.  Every  *)
(* operation rounds down to that grid.                                     *)
(***************************************************************************)
EXTENDS Integers, Sequences, FiniteSets, TLC

(***************************************************************************)
(* Fixed-point arithmetic standing for float arithmetic.                   *)
(***************************************************************************)
Base == 10 ^ 4

Zero == <<0, 0, 0, 0, 0>>
One == <<1, 0, 0, 0, 0>>

FromInt(n) == <<n, 0, 0, 0, 0>>

\* n / 100 for an integer n in 0..99, written as a decimal literal.
Hundredths(n) == <<0, n * 100, 0, 0, 0>>

\* Carries every limb but the first into 0..Base-1.
Norm(x) ==
    LET t5 == x[5]
        t4 == x[4] + (t5 \div Base)
        t3 == x[3] + (t4 \div Base)
        t2 == x[2] + (t3 \div Base)
        t1 == x[1] + (t2 \div Base)
    IN  <<t1, t2 % Base, t3 % Base, t4 % Base, t5 % Base>>

Add(x, y) == Norm(<<x[1] + y[1], x[2] + y[2], x[3] + y[3], x[4] + y[4], x[5] + y[5]>>)

Sub(x, y) == Norm(<<x[1] - y[1], x[2] - y[2], x[3] - y[3], x[4] - y[4], x[5] - y[5]>>)

\* x < y
Less(x, y) ==
    \E k \in 1..5 : /\ x[k] < y[k]
                    /\ \A j \in 1..(k - 1) : x[j] = y[j]

Leq(x, y) == ~Less(y, x)

IsNegative(x) == x[1] < 0

\* Python's min and max of two numbers.
MinOf(x, y) == IF Less(y, x) THEN y ELSE x

MaxOf(x, y) == IF Less(x, y) THEN y ELSE x

\* x * y, rounded down to the grid.
Mul(x, y) ==
    LET c9 == x[5] * y[5]
        c8 == x[4] * y[5] + x[5] * y[4] + (c9 \div Base)
        c7 == x[3] * y[5] + x[4] * y[4] + x[5] * y[3] + (c8 \div Base)
        c6 == x[2] * y[5] + x[3] * y[4] + x[4] * y[3] + x[5] * y[2] + (c7 \div Base)
        c5 == x[1] * y[5] + x[2] * y[4] + x[3] * y[3] + x[4] * y[2] + x[5] * y[1]
              + (c6 \div Base)
        c4 == x[1] * y[4] + x[2] * y[3] + x[3] * y[2] + x[4] * y[1]
        c3 == x[1] * y[3] + x[2] * y[2] + x[3] * y[1]
        c2 == x[1] * y[2] + x[2] * y[1]
        c1 == x[1] * y[1]
    IN  Norm(<<c1, c2, c3, c4, c5>>)

\* x / n for an integer n > 0, rounded down to the grid.
DivInt(x, n) ==
    LET q1 == x[1] \div n
        r1 == x[1] % n
        q2 == (r1 * Base + x[2]) \div n
        r2 == (r1 * Base + x[2]) % n
        q3 == (r2 * Base + x[3]) \div n
        r3 == (r2 * Base + x[3]) % n
        q4 == (r3 * Base + x[4]) \div n
        r4 == (r3 * Base + x[4]) % n
        q5 == (r4 * Base + x[5]) \div n
    IN  <<q1, q2, q3, q4, q5>>

\* e^k for k = 1, 2, 4, 8 and e^-k for k = 1, 2, 4, 8, 16, 32, to sixteen places.
ExpPow2 == <<<<2, 7182, 8182, 8459, 452>>, <<7, 3890, 5609, 8930, 6502>>,
             <<54, 5981, 5003, 3144, 2390>>, <<2980, 9579, 8704, 1728, 2747>>>>

ExpNegPow2 == <<<<0, 3678, 7944, 1171, 4423>>, <<0, 1353, 3528, 3236, 6126>>,
                <<0, 183, 1563, 8888, 7341>>, <<0, 3, 3546, 2627, 9025>>,
                <<0, 0, 11, 2535, 1747>>, <<0, 0, 0, 0, 126>>>>

\* table[b] when bit b of m (bit 1 is the lowest) is set, otherwise 1.
BitFactor(m, b, table) == IF (m \div (2 ^ (b - 1))) % 2 = 1 THEN table[b] ELSE One

\* e^k for an integer k in -63..15: the product of the table entries of k's
\* binary digits.
ExpIntProduct(k) ==
    IF k >= 0
    THEN Mul(Mul(BitFactor(k, 1, ExpPow2), BitFactor(k, 2, ExpPow2)),
             Mul(BitFactor(k, 3, ExpPow2), BitFactor(k, 4, ExpPow2)))
    ELSE Mul(Mul(Mul(BitFactor(-k, 1, ExpNegPow2), BitFactor(-k, 2, ExpNegPow2)),
                 Mul(BitFactor(-k, 3, ExpNegPow2), BitFactor(-k, 4, ExpNegPow2))),
             Mul(BitFactor(-k, 5, ExpNegPow2), BitFactor(-k, 6, ExpNegPow2)))

ExpIntTable == [k \in -63..15 |-> ExpIntProduct(k)]

\* e^k for an integer k <= 15; e^-64 and below are under the grid.  (The
\* argument -2.2 * ors is never above 0 for a weighted sum that is not
\* negative.)
ExpInt(k) == IF k < -63 THEN Zero ELSE ExpIntTable[k]

\* The series 1 + f + f^2/2! + ... for 0 <= f < 1, summed until a term
\* falls below the grid.
RECURSIVE ExpSeries(_, _, _, _)
ExpSeries(f, term, n, acc) ==
    IF term = Zero THEN acc
    ELSE ExpSeries(f, DivInt(Mul(term, f), n), n + 1, Add(acc, term))

\* e^(j/100) and e^(j/10000) for j in 0..99.
ExpHundredths == [j \in 0..99 |-> ExpSeries(<<0, j * 100, 0, 0, 0>>, One, 1, Zero)]

ExpTenThousandths == [j \in 0..99 |-> ExpSeries(<<0, j, 0, 0, 0>>, One, 1, Zero)]

\* math.exp(x): for x = i + h/100 + t/10000 + r with i an integer, h and t in
\* 0..99 and 0 <= r < 1/10000, e^x = e^i * e^(h/100) * e^(t/10000) * e^r.
Exp(x) ==
    Mul(Mul(ExpInt(x[1]), ExpHundredths[x[2] \div 100]),
        Mul(ExpTenThousandths[x[2] % 100],
            ExpSeries(<<0, 0, x[3], x[4], x[5]>>, One, 1, Zero)))

(***************************************************************************)
(* Python values.                                                          *)
(***************************************************************************)
\* None, and a value that is present, for the keyword arguments that default
\* to None and for dict.get on a key that may be missing.
None == <<>>

Some(v) == <<v>>

\* A str is a tuple of one-character strings.
UpperLetters == <<"A", "B", "C", "D", "E", "F", "G", "H", "I", "J", "K", "L", "M",
                  "N", "O", "P", "Q", "R", "S", "T", "U", "V", "W", "X", "Y", "Z">>

LowerLetters == <<"a", "b", "c", "d", "e", "f", "g", "h", "i", "j", "k", "l", "m",
                  "n", "o", "p", "q", "r", "s", "t", "u", "v", "w", "x", "y", "z">>

LowerChar(c) ==
    IF \E k \in 1..26 : UpperLetters[k] = c
    THEN LowerLetters[CHOOSE k \in 1..26 : UpperLetters[k] = c]
    ELSE c

\* str.lower()
Lower(str) == [k \in 1..Len(str) |-> LowerChar(str[k])]

(***************************************************************************)
(* calculate_prodigy_score                                                 *)
(***************************************************************************)
\* The weights dict: each thresholds list is a tuple of <<threshold, weight>>.
prodigy_weights ==
    [age |-> <<<<50, Hundredths(15)>>, <<60, Hundredths(25)>>,
               <<70, Hundredths(35)>>, <<80, Hundredths(45)>>>>,
     gender |-> (<<"m", "a", "l", "e">> :> Hundredths(20))
                @@ (<<"f", "e", "m", "a", "l", "e">> :> Hundredths(10)),
     sleep_apnea |-> Hundredths(35),
     opioid |-> <<<<50, Hundredths(20)>>, <<100, Hundredths(35)>>,
                  <<200, Hundredths(50)>>>>,
     sedative |-> Hundredths(35),
     bmi |-> <<<<30, Hundredths(15)>>, <<35, Hundredths(25)>>, <<40, Hundredths(35)>>>>,
     copd |-> Hundredths(25),
     asa |-> <<<<2, Hundredths(15)>>, <<3, Hundredths(25)>>, <<4, Hundredths(35)>>>>]

\* A faulty filter, "if value > threshold": a value equal to a threshold
\* does not reach it.
ReachesStrictly(value, threshold) == value > threshold

\* The generator's filter: "if value >= threshold".
Reaches(value, threshold) == value >= threshold

\* max() of the weights of a list of pairs that is not empty.
RECURSIVE MaxWeight(_)
MaxWeight(pairs) ==
    IF Len(pairs) = 1 THEN pairs[1][2]
    ELSE MaxOf(pairs[1][2], MaxWeight(Tail(pairs)))

\* max((weight for threshold, weight in thresholds if value >= threshold),
\*     default=0.0)
ThresholdWeight(thresholds, value) ==
    LET reached == SelectSeq(thresholds, LAMBDA pair : Reaches(value, pair[1]))
    IN  IF reached = <<>> THEN Zero ELSE MaxWeight(reached)

\* A faulty conditional, (0 if flag else weight).
BoolWeightInverted(flag, weight) == IF flag THEN Zero ELSE weight

\* (weight if flag else 0)
BoolWeight(flag, weight) == IF flag THEN weight ELSE Zero

\* A faulty lookup, weights['gender'][gender], without .lower().
GenderKeyAsGiven(gender) == gender

\* weights['gender'][gender.lower()]: the key looked up.
GenderKey(gender) == Lower(gender)

\* "if bmi is not None: score += bmi_weight", and the same for asa_status.
AddOptionalWeight(score, thresholds, value) ==
    IF value # None THEN Add(score, ThresholdWeight(thresholds, value[1])) ELSE score

\* "if copd: score += weights['copd']"
AddCopd(score, copd) == IF copd THEN Add(score, prodigy_weights.copd) ELSE score

\* The sum of the contributions, before "min(100, score * 100)".
RawScore(age, gender, sleep_apnea, opioid_dosage, sedative_use, bmi, copd, asa_status) ==
    LET age_weight == ThresholdWeight(prodigy_weights.age, age)
        opioid_weight == ThresholdWeight(prodigy_weights.opioid, opioid_dosage)
        score == Add(Add(Add(Add(age_weight,
                                 prodigy_weights.gender[GenderKey(gender)]),
                             BoolWeight(sleep_apnea, prodigy_weights.sleep_apnea)),
                         opioid_weight),
                     BoolWeight(sedative_use, prodigy_weights.sedative))
    IN  AddOptionalWeight(AddCopd(AddOptionalWeight(score, prodigy_weights.bmi, bmi), copd),
                          prodigy_weights.asa, asa_status)

\* A faulty return, "return score * 100", without the ceiling.
ClampMissing(score) == Mul(score, FromInt(100))

\* return min(100, score * 100)
Clamp(score) == MinOf(FromInt(100), Mul(score, FromInt(100)))

\* The call's outcome: the KeyError of the gender lookup, or the score returned.
calculate_prodigy_score(age, gender, sleep_apnea, opioid_dosage, sedative_use, bmi, copd, asa_status) ==
    IF GenderKey(gender) \notin DOMAIN prodigy_weights.gender
    THEN [raised |-> "KeyError"]
    ELSE [raised |-> "",
          value |-> Clamp(RawScore(age, gender, sleep_apnea, opioid_dosage,
                                   sedative_use, bmi, copd, asa_status))]

(***************************************************************************)
(* calculate_ors                                                           *)
(***************************************************************************)
NORMAL_RANGES ==
    [breathing_rate |-> <<12, 20>>, heart_rate |-> <<60, 100>>,
     spo2 |-> <<95, 100>>, etco2 |-> <<35, 45>>]

\* A faulty multiplier, "1.5 if deviation < 0.3 else 1.0".
ProgressiveInverted(deviation) ==
    IF Less(deviation, Hundredths(30)) THEN DivInt(Mul(deviation, FromInt(15)), 10)
    ELSE deviation

\* "deviation * (1.5 if deviation > 0.3 else 1.0)"
Progressive(deviation) ==
    IF Less(Hundredths(30), deviation) THEN DivInt(Mul(deviation, FromInt(15)), 10)
    ELSE deviation

\* A faulty deviation below the range, (value - lo) / lo, which is negative.
DeviationSigned(value, normal_range) ==
    IF value < normal_range[1]
    THEN DivInt(FromInt(value - normal_range[1]), normal_range[1])
    ELSE IF value > normal_range[2]
    THEN DivInt(FromInt(value - normal_range[2]), normal_range[2])
    ELSE Zero

calculate_deviation_score(value, normal_range) ==
    IF value < normal_range[1]
    THEN Progressive(DivInt(FromInt(normal_range[1] - value), normal_range[1]))
    ELSE IF value > normal_range[2]
    THEN Progressive(DivInt(FromInt(value - normal_range[2]), normal_range[2]))
    ELSE Zero

ors_weights ==
    [prodigy |-> Hundredths(35), recent_breathing |-> Hundredths(15),
     current_breathing |-> Hundredths(15), heart_rate |-> Hundredths(10),
     breath_amplitude |-> Hundredths(15), spo2 |-> Hundredths(5),
     etco2 |-> Hundredths(5)]

\* A faulty normalisation, min(1, breath_amplitude / 10), without max(0, ...).
AmplitudeRiskNoFloor(breath_amplitude) ==
    LET normalized_amplitude == MinOf(One, DivInt(FromInt(breath_amplitude), 10))
    IN  DivInt(Mul(Sub(One, normalized_amplitude), FromInt(15)), 10)

\* normalized_amplitude = max(0, min(1, breath_amplitude / 10))
\* amplitude_risk = (1 - normalized_amplitude) * 1.5
AmplitudeRisk(breath_amplitude) ==
    LET normalized_amplitude == MaxOf(Zero, MinOf(One, DivInt(FromInt(breath_amplitude), 10)))
    IN  DivInt(Mul(Sub(One, normalized_amplitude), FromInt(15)), 10)

\* A faulty override, "if spo2 > 92: spo2_deviation *= 2.0".
Spo2DeviationInverted(spo2) ==
    LET spo2_deviation == calculate_deviation_score(spo2, NORMAL_RANGES.spo2)
    IN  IF spo2 > 92 THEN Mul(spo2_deviation, FromInt(2)) ELSE spo2_deviation

\* "if spo2 < 92: spo2_deviation *= 2.0"
Spo2Deviation(spo2) ==
    LET spo2_deviation == calculate_deviation_score(spo2, NORMAL_RANGES.spo2)
    IN  IF spo2 < 92 THEN Mul(spo2_deviation, FromInt(2)) ELSE spo2_deviation

\* "if etco2 < 30 or etco2 > 50: etco2_deviation *= 2.0"
Etco2Deviation(etco2) ==
    LET etco2_deviation == calculate_deviation_score(etco2, NORMAL_RANGES.etco2)
    IN  IF etco2 < 30 \/ etco2 > 50 THEN Mul(etco2_deviation, FromInt(2))
        ELSE etco2_deviation

\* A faulty default, "spo2 or 0": a missing reading counts as a reading of 0.
AddSpo2Defaulted(ors, spo2) ==
    Add(ors, Mul(ors_weights.spo2, Spo2Deviation(IF spo2 = None THEN 0 ELSE spo2[1])))

\* "if spo2 is not None: ... ors += weights['spo2'] * spo2_deviation"
AddSpo2(ors, spo2) ==
    IF spo2 # None THEN Add(ors, Mul(ors_weights.spo2, Spo2Deviation(spo2[1]))) ELSE ors

AddEtco2(ors, etco2) ==
    IF etco2 # None THEN Add(ors, Mul(ors_weights.etco2, Etco2Deviation(etco2[1])))
    ELSE ors

\* The weighted sum that goes into the exponential.
WeightedSum(prodigy_score, recent_breathing_rate, current_breathing_rate, heart_rate, breath_amplitude, spo2, etco2) ==
    LET normalized_prodigy == DivInt(prodigy_score, 100)
        breathing_deviation ==
            calculate_deviation_score(current_breathing_rate, NORMAL_RANGES.breathing_rate)
        recent_breathing_deviation ==
            calculate_deviation_score(recent_breathing_rate, NORMAL_RANGES.breathing_rate)
        heart_rate_deviation ==
            calculate_deviation_score(heart_rate, NORMAL_RANGES.heart_rate)
        amplitude_risk == AmplitudeRisk(breath_amplitude)
        ors == Add(Add(Add(Add(Mul(ors_weights.prodigy, normalized_prodigy),
                               Mul(ors_weights.recent_breathing, recent_breathing_deviation)),
                           Mul(ors_weights.current_breathing, breathing_deviation)),
                       Mul(ors_weights.heart_rate, heart_rate_deviation)),
                   Mul(ors_weights.breath_amplitude, amplitude_risk))
    IN  AddEtco2(AddSpo2(ors, spo2), etco2)

\* ors = 1 - math.exp(-2.2 * ors)
Saturate(ors) == Sub(One, Exp(Mul(<<-3, 8000, 0, 0, 0>>, ors)))

Critical == "Critical Risk - Immediate Intervention Required"
High == "High Risk - Close Monitoring Required"
Moderate == "Moderate Risk - Regular Monitoring"
Low == "Low Risk - Standard Monitoring"
Minimal == "Minimal Risk - Routine Care"

\* A faulty chain whose first test is "ors >= 0.65".
RiskLevelInclusive(ors) ==
    IF Leq(Hundredths(65), ors) THEN Critical
    ELSE IF Less(Hundredths(45), ors) THEN High
    ELSE IF Less(Hundredths(25), ors) THEN Moderate
    ELSE IF Less(Hundredths(15), ors) THEN Low
    ELSE Minimal

\* The if/elif chain over the recalibrated thresholds.
RiskLevel(ors) ==
    IF Less(Hundredths(65), ors) THEN Critical
    ELSE IF Less(Hundredths(45), ors) THEN High
    ELSE IF Less(Hundredths(25), ors) THEN Moderate
    ELSE IF Less(Hundredths(15), ors) THEN Low
    ELSE Minimal

calculate_ors(prodigy_score, recent_breathing_rate, current_breathing_rate, heart_rate, breath_amplitude, spo2, etco2) ==
    LET ors == Saturate(WeightedSum(prodigy_score, recent_breathing_rate,
                                    current_breathing_rate, heart_rate,
                                    breath_amplitude, spo2, etco2))
    IN  [ors |-> ors, risk_level |-> RiskLevel(ors)]

(***************************************************************************)
(* The patient files the script is run on.                                 *)
(***************************************************************************)
\* The largest values a file holds.
MaxAge == 95
MaxOpioidDosage == 250
MaxBmi == 45
MaxAsaStatus == 5
MaxHeartRate == 12000
MaxBreathAmplitude == 12
\* How far a sweep goes to either side of a point of a normal range.
SweepWidth == 4

Male == <<"m", "a", "l", "e">>
Female == <<"f", "e", "m", "a", "l", "e">>

GenderSpellings ==
    {Male, <<"M", "A", "L", "E">>, <<"M", "a", "l", "e">>,
     Female, <<"F", "e", "M", "a", "l", "e">>,
     <<"o", "t", "h", "e", "r">>, <<"m">>, <<>>}

\* Vital signs inside every normal range, amplitude at the reference, no
\* SpO2 and no EtCO2 reading.
CalmVitals ==
    [recent_breathing_rate |-> 16, current_breathing_rate |-> 16, heart_rate |-> 80,
     breath_amplitude |-> 10, spo2 |-> None, etco2 |-> None]

\* Every combination of risk factors around the thresholds, with calm vitals.
\* copd is the value of patient_data.get('copd', False): None when the key is
\* missing.
FactorFiles ==
    {[age |-> a, gender |-> g, sleep_apnea |-> sa, opioid_dosage |-> od,
      sedative_use |-> su, bmi |-> b, copd |-> c, asa_status |-> asa] @@ CalmVitals :
        a \in {49, 50, 65, 80, MaxAge}, g \in {Male, Female}, sa \in BOOLEAN,
        od \in {49, 50, 100, MaxOpioidDosage}, su \in BOOLEAN,
        b \in {None, Some(29), Some(30), Some(MaxBmi)},
        c \in {None, Some(FALSE), Some(TRUE)},
        asa \in {None, Some(1), Some(2), Some(MaxAsaStatus)}}

\* Every spelling of the gender, with a few of the other factors.
GenderFiles ==
    {[age |-> a, gender |-> g, sleep_apnea |-> sa, opioid_dosage |-> od,
      sedative_use |-> FALSE, bmi |-> None, copd |-> None, asa_status |-> None]
     @@ CalmVitals :
        a \in {49, 80}, g \in GenderSpellings, sa \in BOOLEAN,
        od \in {49, MaxOpioidDosage}}

\* The lowest and a high static risk, with every combination of vital signs
\* inside, outside and far outside the normal ranges.
VitalFiles ==
    {[age |-> f[1], gender |-> Female, sleep_apnea |-> f[2], opioid_dosage |-> 0,
      sedative_use |-> f[2], bmi |-> None, copd |-> None, asa_status |-> None,
      recent_breathing_rate |-> rbr, current_breathing_rate |-> cbr,
      heart_rate |-> hr, breath_amplitude |-> amp, spo2 |-> sp, etco2 |-> et] :
        f \in {<<30, FALSE>>, <<70, TRUE>>},
        rbr \in {16, 26}, cbr \in {8, 16, 27}, hr \in {41, 80, 7400, MaxHeartRate},
        amp \in {-1, 0, 5, 10, MaxBreathAmplitude},
        sp \in {None, Some(66), Some(88), Some(91), Some(92), Some(93), Some(97)},
        et \in {None, Some(29), Some(40), Some(58)}}

\* The ends of a normal range and the values where the relative overshoot
\* passes 0.30, each with the values SweepWidth to either side.
SweepValues(normal_range) ==
    UNION {(point - SweepWidth)..(point + SweepWidth) :
               point \in {normal_range[1], normal_range[2],
                          (7 * normal_range[1]) \div 10, (13 * normal_range[2]) \div 10}}

LowRiskFactors ==
    [age |-> 30, gender |-> Female, sleep_apnea |-> FALSE, opioid_dosage |-> 0,
     sedative_use |-> FALSE, bmi |-> None, copd |-> None, asa_status |-> None]

\* One vital sign swept across its normal range, the others calm.
SweepFiles ==
    {LowRiskFactors @@ [CalmVitals EXCEPT !.recent_breathing_rate = v] :
        v \in SweepValues(NORMAL_RANGES.breathing_rate)}
    \cup {LowRiskFactors @@ [CalmVitals EXCEPT !.current_breathing_rate = v] :
        v \in SweepValues(NORMAL_RANGES.breathing_rate)}
    \cup {LowRiskFactors @@ [CalmVitals EXCEPT !.heart_rate = v] :
        v \in SweepValues(NORMAL_RANGES.heart_rate)}
    \cup {LowRiskFactors @@ [CalmVitals EXCEPT !.spo2 = Some(v)] :
        v \in SweepValues(NORMAL_RANGES.spo2)}
    \cup {LowRiskFactors @@ [CalmVitals EXCEPT !.etco2 = Some(v)] :
        v \in SweepValues(NORMAL_RANGES.etco2)}

(***************************************************************************)
(* The script: load the file, score, combine, print.                       *)
(***************************************************************************)
VARIABLES
    pc,             \* where the script is: "load", "score", "ors", "print", "raised"
    patient_data,   \* the dict load_patient_data returned, None before
    prodigy_score,  \* the static score, None before calculate_prodigy_score returns
    ors,            \* the Overall Risk Score, None before calculate_ors returns
    risk_level      \* its label, None before calculate_ors returns

vars == <<pc, patient_data, prodigy_score, ors, risk_level>>

Init ==
    /\ pc = "load"
    /\ patient_data = None
    /\ prodigy_score = None
    /\ ors = None
    /\ risk_level = None

\* patient_data = load_patient_data(file_path)
LoadPatientData ==
    /\ pc = "load"
    /\ \/ patient_data' \in FactorFiles
       \/ patient_data' \in GenderFiles
       \/ patient_data' \in VitalFiles
       \/ patient_data' \in SweepFiles
    /\ pc' = "score"
    /\ UNCHANGED <<prodigy_score, ors, risk_level>>

\* The call of calculate_prodigy_score with the fields of patient_data.
ProdigyCall(data) ==
    calculate_prodigy_score(data.age, data.gender, data.sleep_apnea, data.opioid_dosage,
                            data.sedative_use, data.bmi,
                            IF data.copd = None THEN FALSE ELSE data.copd[1],
                            data.asa_status)

\* prodigy_score = calculate_prodigy_score(...); a KeyError ends the script.
CalculateProdigyScore ==
    /\ pc = "score"
    /\ LET result == ProdigyCall(patient_data)
       IN  IF result.raised # ""
           THEN /\ pc' = "raised"
                /\ UNCHANGED prodigy_score
           ELSE /\ pc' = "ors"
                /\ prodigy_score' = result.value
    /\ UNCHANGED <<patient_data, ors, risk_level>>

\* The call of calculate_ors with a static score and the vitals of patient_data.
OrsCall(score, data) ==
    calculate_ors(score, data.recent_breathing_rate, data.current_breathing_rate,
                  data.heart_rate, data.breath_amplitude, data.spo2, data.etco2)

\* ors, risk_level = calculate_ors(prodigy_score, ...)
CalculateOrs ==
    /\ pc = "ors"
    /\ LET result == OrsCall(prodigy_score, patient_data)
       IN  /\ ors' = result.ors
           /\ risk_level' = result.risk_level
    /\ pc' = "print"
    /\ UNCHANGED <<patient_data, prodigy_score>>

Next == LoadPatientData \/ CalculateProdigyScore \/ CalculateOrs

Spec == Init /\ [][Next]_vars

(***************************************************************************)
(* Properties.                                                             *)
(***************************************************************************)
\* calculate_prodigy_score has just returned a score.
Scored == pc = "ors"

\* calculate_ors has returned.
Combined == pc = "print"

\* The static score of the loaded file with one field replaced.
ScoreWith(field, v) == ProdigyCall([patient_data EXCEPT ![field] = v]).value

\* The result of calculate_ors for the loaded file with one field replaced.
OrsWith(field, v) == OrsCall(prodigy_score, [patient_data EXCEPT ![field] = v])

\* The sum of contributions and the weighted sum of the loaded file.
StateRawScore ==
    RawScore(patient_data.age, patient_data.gender, patient_data.sleep_apnea,
             patient_data.opioid_dosage, patient_data.sedative_use, patient_data.bmi,
             IF patient_data.copd = None THEN FALSE ELSE patient_data.copd[1],
             patient_data.asa_status)

StateSum ==
    WeightedSum(prodigy_score, patient_data.recent_breathing_rate,
                patient_data.current_breathing_rate, patient_data.heart_rate,
                patient_data.breath_amplitude, patient_data.spo2, patient_data.etco2)

\* C1: every static score returned is between 0 and 100, and a sum of
\* contributions whose hundredfold is above 100 is returned as exactly 100,
\* not raised as an error.
C1_StaticScoreBounded ==
    /\ Scored =>
        /\ Leq(Zero, prodigy_score)
        /\ Leq(prodigy_score, FromInt(100))
    /\ (pc \in {"ors", "raised"}
        /\ Lower(patient_data.gender) \in {Male, Female}
        /\ Less(One, StateRawScore)) =>
        /\ Scored
        /\ prodigy_score = FromInt(100)

\* C1 witness: a score was cut down to the ceiling.
C1_Witness ==
    /\ Scored
    /\ Less(FromInt(2), StateRawScore)
    /\ prodigy_score = FromInt(100)

Severity(label) ==
    CASE label = Minimal -> 0
      [] label = Low -> 1
      [] label = Moderate -> 2
      [] label = High -> 3
      [] label = Critical -> 4

\* The four breakpoints, and for each the next number above it.
Breakpoints == {Hundredths(15), Hundredths(25), Hundredths(45), Hundredths(65)}

JustAbove(x) == Add(x, <<0, 0, 0, 0, 1>>)

\* C3: the label is Critical for ORS > 0.65, High for 0.45 < ORS <= 0.65,
\* Moderate for 0.25 < ORS <= 0.45, Low for 0.15 < ORS <= 0.25 and Minimal
\* for ORS <= 0.15: a breakpoint itself gets the lower label, the next
\* number above it the higher one, and a larger ORS never gets a less
\* severe label.
C3_RiskLevelPartition ==
    Combined =>
        /\ risk_level \in {Critical, High, Moderate, Low, Minimal}
        /\ risk_level = Critical <=> Less(Hundredths(65), ors)
        /\ risk_level = High <=> (Less(Hundredths(45), ors) /\ Leq(ors, Hundredths(65)))
        /\ risk_level = Moderate <=> (Less(Hundredths(25), ors) /\ Leq(ors, Hundredths(45)))
        /\ risk_level = Low <=> (Less(Hundredths(15), ors) /\ Leq(ors, Hundredths(25)))
        /\ risk_level = Minimal <=> Leq(ors, Hundredths(15))
        /\ \A b \in Breakpoints :
            /\ Severity(RiskLevel(JustAbove(b))) = Severity(RiskLevel(b)) + 1
            /\ Leq(ors, b) => Severity(risk_level) <= Severity(RiskLevel(b))
            /\ Less(b, ors) => Severity(risk_level) >= Severity(RiskLevel(JustAbove(b)))

\* C3 witness: an ORS between two breakpoints with the label of that band.
C3_Witness ==
    /\ Combined
    /\ Less(Hundredths(25), ors)
    /\ Leq(ors, Hundredths(45))
    /\ risk_level = Moderate

\* C4: with every other input as it is, turning sleep_apnea, sedative_use or
\* copd from false to true never lowers the static score.
C4_BooleanFactorMonotone ==
    Scored =>
        /\ ~patient_data.sleep_apnea => Leq(prodigy_score, ScoreWith("sleep_apnea", TRUE))
        /\ ~patient_data.sedative_use => Leq(prodigy_score, ScoreWith("sedative_use", TRUE))
        /\ patient_data.copd # Some(TRUE) => Leq(prodigy_score, ScoreWith("copd", Some(TRUE)))

\* C4 witness: a score below the ceiling that sleep apnea would raise.
C4_Witness ==
    /\ Scored
    /\ ~patient_data.sleep_apnea
    /\ Less(prodigy_score, ScoreWith("sleep_apnea", TRUE))

\* What C5 says of one value and its normal range: no deviation inside the
\* range, a larger deviation one step further above it, a larger deviation
\* one step further below it.
DeviationStep(value, normal_range) ==
    /\ (normal_range[1] <= value /\ value <= normal_range[2]) =>
        calculate_deviation_score(value, normal_range) = Zero
    /\ value >= normal_range[2] =>
        Less(calculate_deviation_score(value, normal_range),
             calculate_deviation_score(value + 1, normal_range))
    /\ value <= normal_range[1] =>
        Less(calculate_deviation_score(value, normal_range),
             calculate_deviation_score(value - 1, normal_range))

\* C5: for the breathing, heart rate, SpO2 and EtCO2 ranges the deviation
\* score is 0 inside the range, strictly increasing above it and strictly
\* decreasing below it, also where the overshoot passes 0.30.
C5_DeviationMonotone ==
    Combined =>
        /\ DeviationStep(patient_data.recent_breathing_rate, NORMAL_RANGES.breathing_rate)
        /\ DeviationStep(patient_data.current_breathing_rate, NORMAL_RANGES.breathing_rate)
        /\ DeviationStep(patient_data.heart_rate, NORMAL_RANGES.heart_rate)
        /\ patient_data.spo2 # None =>
            DeviationStep(patient_data.spo2[1], NORMAL_RANGES.spo2)
        /\ patient_data.etco2 # None =>
            DeviationStep(patient_data.etco2[1], NORMAL_RANGES.etco2)

\* C5 witness: a heart rate whose overshoot below the range is just past
\* 0.30, so that the step to it crosses the start of the 1.5 multiplier.
C5_Witness ==
    /\ Combined
    /\ patient_data.heart_rate = 41
    /\ Leq(calculate_deviation_score(42, NORMAL_RANGES.heart_rate), Hundredths(30))
    /\ Less(Hundredths(45), calculate_deviation_score(41, NORMAL_RANGES.heart_rate))

\* SpO2 readings from 92 up to 100 to compare a reading below 92 with.
Spo2AtLeast92 == {92, 93, 95, 100}

SameLetters(gender) == {g \in GenderSpellings : Lower(g) = Lower(gender)}

\* C7: every spelling of male, and every spelling of female, gives the same
\* score, and any other gender ends the call in an error: the script stops
\* with no static score and no ORS.
C7_GenderCaseAndError ==
    pc \in {"ors", "raised"} =>
        /\ Lower(patient_data.gender) \in {Male, Female} =>
            /\ Scored
            /\ \A g \in SameLetters(patient_data.gender) :
                   ProdigyCall([patient_data EXCEPT !.gender = g])
                       = [raised |-> "", value |-> prodigy_score]
        /\ Lower(patient_data.gender) \notin {Male, Female} =>
            /\ pc = "raised"
            /\ prodigy_score = None
            /\ ors = None
            /\ risk_level = None

\* C7 witness: a gender that is neither male nor female raised the error.
C7_Witness ==
    /\ pc = "raised"
    /\ patient_data.gender = <<"o", "t", "h", "e", "r">>
    /\ prodigy_score = None

\* The weight paired with the highest threshold that does not exceed the
\* value, and zero when the value is below every threshold.
HighestReached(thresholds, value) ==
    LET reached == {k \in 1..Len(thresholds) : thresholds[k][1] <= value}
    IN  IF reached = {} THEN Zero
        ELSE thresholds[CHOOSE k \in reached :
                            \A j \in reached : thresholds[j][1] <= thresholds[k][1]][2]

Reverse(seq) == [k \in 1..Len(seq) |-> seq[Len(seq) + 1 - k]]

\* What C8 says of one factor: the weight computed is the weight of the
\* highest threshold reached, whichever way the table is traversed.
WeightIsHighestReached(thresholds, value) ==
    /\ ThresholdWeight(thresholds, value) = HighestReached(thresholds, value)
    /\ ThresholdWeight(Reverse(thresholds), value) = HighestReached(thresholds, value)

\* The static score with every continuous factor's weight taken from the
\* highest threshold reached.
ScoreByHighestReached ==
    LET continuous ==
            Add(Add(HighestReached(prodigy_weights.age, patient_data.age),
                    HighestReached(prodigy_weights.opioid, patient_data.opioid_dosage)),
                Add(IF patient_data.bmi = None THEN Zero
                    ELSE HighestReached(prodigy_weights.bmi, patient_data.bmi[1]),
                    IF patient_data.asa_status = None THEN Zero
                    ELSE HighestReached(prodigy_weights.asa, patient_data.asa_status[1])))
        others ==
            Add(Add(prodigy_weights.gender[Lower(patient_data.gender)],
                    IF patient_data.sleep_apnea THEN Hundredths(35) ELSE Zero),
                Add(IF patient_data.sedative_use THEN Hundredths(35) ELSE Zero,
                    IF patient_data.copd = Some(TRUE) THEN Hundredths(25) ELSE Zero))
    IN  MinOf(FromInt(100), Mul(Add(continuous, others), FromInt(100)))

\* C8: the weight of age, opioid_dosage, bmi and asa_status is the weight
\* paired with the highest threshold not exceeding the value (a value equal
\* to a threshold reaches it), zero below every threshold, and the same in
\* whichever order the table is traversed.
C8_HighestThresholdWeight ==
    Scored =>
        /\ WeightIsHighestReached(prodigy_weights.age, patient_data.age)
        /\ WeightIsHighestReached(prodigy_weights.opioid, patient_data.opioid_dosage)
        /\ patient_data.bmi # None =>
            WeightIsHighestReached(prodigy_weights.bmi, patient_data.bmi[1])
        /\ patient_data.asa_status # None =>
            WeightIsHighestReached(prodigy_weights.asa, patient_data.asa_status[1])
        /\ prodigy_score = ScoreByHighestReached

\* C8 witness: an age equal to a threshold, a dose below every threshold, a
\* BMI above every threshold and an ASA status equal to a threshold, in a
\* score below the ceiling.
C8_Witness ==
    /\ Scored
    /\ patient_data.age = 50
    /\ patient_data.opioid_dosage = 49
    /\ patient_data.bmi = Some(MaxBmi)
    /\ patient_data.asa_status = Some(2)
    /\ prodigy_score = FromInt(75)

\* C9: an input that is absent contributes nothing and changes no other
\* term: without bmi, asa_status or copd the static score is that of a bmi
\* below 30, an asa_status below 2, a copd of false, and without spo2 or
\* etco2 the ORS and the risk level are those of a reading inside the normal
\* range.
C9_AbsentOptionalIsNeutral ==
    Combined =>
        /\ patient_data.bmi = None =>
            \A b \in {-1, 29} : ScoreWith("bmi", Some(b)) = prodigy_score
        /\ patient_data.asa_status = None =>
            ScoreWith("asa_status", Some(1)) = prodigy_score
        /\ patient_data.copd = None =>
            ScoreWith("copd", Some(FALSE)) = prodigy_score
        /\ patient_data.spo2 = None =>
            OrsWith("spo2", Some(97)) = [ors |-> ors, risk_level |-> risk_level]
        /\ patient_data.etco2 = None =>
            OrsWith("etco2", Some(40)) = [ors |-> ors, risk_level |-> risk_level]

\* C9 witness: a file without any optional field, scored and combined.
C9_Witness ==
    /\ Combined
    /\ patient_data.bmi = None
    /\ patient_data.asa_status = None
    /\ patient_data.copd = None
    /\ patient_data.spo2 = None
    /\ patient_data.etco2 = None
    /\ Less(Zero, ors)

\* (1 - clamp(amplitude / 10, 0, 1)) * 1.5 for an integer amplitude.
AmplitudeRiskExpected(amplitude) ==
    IF amplitude <= 0 THEN <<1, 5000, 0, 0, 0>>
    ELSE IF amplitude >= 10 THEN Zero
    ELSE DivInt(FromInt(15 * (10 - amplitude)), 100)

\* C10: the breath-amplitude risk is (1 - clamp(amplitude / 10, 0, 1)) * 1.5:
\* within 0..1.5, 1.5 for every amplitude <= 0, 0 for every amplitude >= 10,
\* never smaller for a lower amplitude, and a lower amplitude never gives a
\* lower ORS.
C10_AmplitudeRisk ==
    Combined =>
        LET amplitude == patient_data.breath_amplitude
            risk == AmplitudeRisk(amplitude)
        IN  /\ risk = AmplitudeRiskExpected(amplitude)
            /\ Leq(Zero, risk)
            /\ Leq(risk, <<1, 5000, 0, 0, 0>>)
            /\ amplitude <= 0 => risk = <<1, 5000, 0, 0, 0>>
            /\ amplitude >= 10 => risk = Zero
            /\ Leq(risk, AmplitudeRisk(amplitude - 1))
            /\ Leq(ors, OrsWith("breath_amplitude", amplitude - 1).ors)

\* C10 witness: an amplitude of 5 whose ORS is strictly below that of an
\* amplitude of 4.
C10_Witness ==
    /\ Combined
    /\ patient_data.breath_amplitude = 5
    /\ AmplitudeRisk(5) = <<0, 7500, 0, 0, 0>>
    /\ Less(ors, OrsWith("breath_amplitude", 4).ors)
====
